---- MODULE Spec2Model ----
(***************************************************************************)
(* Model of src/render.rs: the RenderableEvent implementations for         *)
(* EncryptedEvent, MemberEvent and MessageEvent, and the two resolution    *)
(* traits HasFormattedBody and HasUrlOrFile.                               *)
(*                                                                         *)
(* A Rust string is a sequence of characters; a character is a one-letter  *)
(* TLA+ string.  Option<T> is a record with a `some` flag.  A call either  *)
(* returns a value (Ok) or panics (Panic), as Option::unwrap does on None. *)
(***************************************************************************)
EXTENDS Integers, Sequences, FiniteSets, TLC

VARIABLES event, displayname, pc, op, result

vars == <<event, displayname, pc, op, result>>

-----------------------------------------------------------------------------
(* Bounds of the input space.                                              *)

MaxNameLen == 2
MaxBodyLen == 1
MaxUrlLen == 1

TAB == "\t"

Char == {"a", "S", TAB}

RECURSIVE StrUpTo(_)
StrUpTo(n) ==
    IF n = 0 THEN {<<>>}
    ELSE LET shorter == StrUpTo(n - 1)
         IN  shorter \cup {Append(s, c) : s \in {t \in shorter : Len(t) = n - 1}, c \in Char}

-----------------------------------------------------------------------------
(* Option<T> and the outcome of a call.                                    *)

None == [some |-> FALSE]
Some(v) == [some |-> TRUE, val |-> v]
Option(S) == {None} \cup {Some(v) : v \in S}

Ok(v) == [status |-> "ok", value |-> v]
Panic == [status |-> "panic"]

\* Option::unwrap_or_else(|| default)
unwrap_or_else(o, default) == IF o.some THEN o.val ELSE default

\* Option::or_else(|| other)
or_else(o, other) == IF o.some THEN o ELSE other

\* Option::unwrap_or_default, the behaviour unwrap does NOT have
unwrap_blank(o) == Ok(IF o.some THEN o.val ELSE <<>>)

\* Option::unwrap: the value, or a panic on None
unwrap(o) == IF o.some THEN Ok(o.val) ELSE Panic

\* Option::map(|f| f.url.as_str())
map_url(o) == IF o.some THEN Some(o.val.url) ELSE None

-----------------------------------------------------------------------------
(* The event types of matrix_sdk::events::room that render.rs reads.       *)

MembershipState == {"Join", "Leave", "Ban", "Invite", "Knock"}

FormattedKinds == {"Text", "Emote", "Notice"}
UrlOrFileKinds == {"Audio", "File", "Image", "Video"}
MessageKinds == FormattedKinds \cup UrlOrFileKinds \cup {"Location", "ServerNotice"}

Names == StrUpTo(MaxNameLen)
Bodies == StrUpTo(MaxBodyLen)
Urls == StrUpTo(MaxUrlLen)

\* the opaque payload of an encrypted event
Ciphertexts == {<<"a">>, <<"S">>}

\* the encrypted-file holder: its locator plus encryption metadata
EncryptedFile == [url : Urls, v : {"v2"}]

FormattedContent ==
    [msgtype : FormattedKinds, body : Bodies, formatted_body : Option(Bodies)]

UrlOrFileContent ==
    [msgtype : UrlOrFileKinds, body : Bodies, url : Option(Urls),
     file : Option(EncryptedFile)]

LocationContent == [msgtype : {"Location"}, body : Bodies, geo_uri : Urls]

ServerNoticeContent == [msgtype : {"ServerNotice"}, body : Bodies]

MessageEventContent ==
    FormattedContent \cup UrlOrFileContent \cup LocationContent
        \cup ServerNoticeContent

EncryptedEvent == [type : {"EncryptedEvent"}, content : [ciphertext : Ciphertexts]]

MemberEvent ==
    [type : {"MemberEvent"}, content : [membership : MembershipState],
     state_key : Names]

MessageEvent == [type : {"MessageEvent"}, content : MessageEventContent]

Events == EncryptedEvent \cup MemberEvent \cup MessageEvent

-----------------------------------------------------------------------------
(* String literals of the format! templates.                               *)

UnableToDecrypt ==
    <<"U","n","a","b","l","e"," ","t","o"," ","d","e","c","r","y","p","t",
      " ","m","e","s","s","a","g","e">>

SERVER == <<"S","E","R","V","E","R">>

-----------------------------------------------------------------------------
(* impl RenderableEvent for EncryptedEvent                                 *)

EncryptedEvent_render_payload(self, dn) ==
    Ok(dn \o <<TAB>> \o self.content.ciphertext)

EncryptedEvent_render(self, dn) ==
    Ok(dn \o <<TAB>> \o UnableToDecrypt)

(* impl RenderableEvent for MemberEvent                                    *)

operation_knocked(membership) ==
    CASE membership = "Join"   -> <<"j","o","i","n","e","d">>
      [] membership = "Leave"  -> <<"l","e","f","t">>
      [] membership = "Ban"    -> <<"b","a","n","n","e","d">>
      [] membership = "Invite" -> <<"i","n","v","i","t","e","d">>
      [] membership = "Knock"  -> <<"i","n","v","i","t","e","d">>

operation(membership) ==
    CASE membership = "Join"   -> <<"j","o","i","n","e","d">>
      [] membership = "Leave"  -> <<"l","e","f","t">>
      [] membership = "Ban"    -> <<"b","a","n","n","e","d">>
      [] membership = "Invite" -> <<"i","n","v","i","t","e","d">>
      [] membership = "Knock"  -> <<"k","n","o","c","k","e","d"," ","o","n">>

MemberEvent_render_tab(self, dn) ==
    Ok(dn \o <<TAB>> \o <<"(">> \o self.state_key \o <<")"," ","h","a","s"," ">>
          \o operation(self.content.membership)
          \o <<" ","t","h","e"," ","r","o","o","m">>)

MemberEvent_render(self, dn) ==
    Ok(dn \o <<" ","(">> \o self.state_key \o <<")"," ","h","a","s"," ">>
          \o operation(self.content.membership)
          \o <<" ","t","h","e"," ","r","o","o","m">>)

-----------------------------------------------------------------------------
(* trait HasFormattedBody and has_formatted_body!                          *)

body(self) == self.body

formatted_body(self) == self.formatted_body

resolve_body_plain(self) == body(self)

resolve_body(self) == unwrap_or_else(formatted_body(self), body(self))

(* trait HasUrlOrFile and has_url_or_file!                                 *)

url(self) == self.url

file(self) == map_url(self.file)

resolve_url_file_first(self) == unwrap(or_else(file(self), url(self)))

resolve_url_blank(self) == unwrap_blank(or_else(url(self), file(self)))

resolve_url_no_fallback(self) == unwrap(url(self))

resolve_url(self) == unwrap(or_else(url(self), file(self)))

-----------------------------------------------------------------------------
(* impl RenderableEvent for MessageEvent                                   *)

\* format!("{}\t{}", displayname, x.resolve_body())
render_body(c, dn) == Ok(dn \o <<TAB>> \o resolve_body(c))

\* format!("{}\t{}: {}", displayname, x.body, x.resolve_url()); the
\* argument is evaluated first, so its panic is the panic of render
render_url_direct(c, dn) ==
    LET u == unwrap(url(c))
    IN  IF u.status = "panic" THEN Ok(dn \o <<TAB>> \o c.body \o <<":"," ">>)
        ELSE Ok(dn \o <<TAB>> \o c.body \o <<":"," ">> \o u.value)

render_url(c, dn) ==
    LET u == resolve_url(c)
    IN  IF u.status = "panic" THEN Panic
        ELSE Ok(dn \o <<TAB>> \o c.body \o <<":"," ">> \o u.value)

\* format!("{}\t{}: {}", displayname, l.body, l.geo_uri)
render_location(c, dn) == Ok(dn \o <<TAB>> \o c.body \o <<":"," ">> \o c.geo_uri)

\* format!("SERVER\t{}", sn.body)
render_server_notice_named(c, dn) == Ok(dn \o <<TAB>> \o c.body)

render_server_notice(c, dn) == Ok(SERVER \o <<TAB>> \o c.body)

\* an Emote arm with IRC-style "* name action" styling
MessageEvent_render_styled(self, dn) ==
    LET c == self.content
    IN  CASE c.msgtype = "Text"         -> render_body(c, dn)
          [] c.msgtype = "Emote"        -> Ok(<<"*"," ">> \o dn \o <<" ">> \o resolve_body(c))
          [] c.msgtype = "Audio"        -> render_url(c, dn)
          [] c.msgtype = "File"         -> render_url(c, dn)
          [] c.msgtype = "Image"        -> render_url(c, dn)
          [] c.msgtype = "Location"     -> render_location(c, dn)
          [] c.msgtype = "Notice"       -> render_body(c, dn)
          [] c.msgtype = "Video"        -> render_url(c, dn)
          [] c.msgtype = "ServerNotice" -> render_server_notice(c, dn)

MessageEvent_render(self, dn) ==
    LET c == self.content
    IN  CASE c.msgtype = "Text"         -> render_body(c, dn)
          [] c.msgtype = "Emote"        -> render_body(c, dn)
          [] c.msgtype = "Audio"        -> render_url(c, dn)
          [] c.msgtype = "File"         -> render_url(c, dn)
          [] c.msgtype = "Image"        -> render_url(c, dn)
          [] c.msgtype = "Location"     -> render_location(c, dn)
          [] c.msgtype = "Notice"       -> render_body(c, dn)
          [] c.msgtype = "Video"        -> render_url(c, dn)
          [] c.msgtype = "ServerNotice" -> render_server_notice(c, dn)

-----------------------------------------------------------------------------
(* The state machine: one call on one caller-supplied input.               *)

Init ==
    /\ event \in Events
    /\ displayname \in Names
    /\ pc = "ready"
    /\ op = "none"
    /\ result = None

Return(o, r) ==
    /\ pc' = "done"
    /\ op' = o
    /\ result' = r
    /\ UNCHANGED <<event, displayname>>

RenderEncrypted ==
    /\ pc = "ready"
    /\ event.type = "EncryptedEvent"
    /\ Return("render", EncryptedEvent_render(event, displayname))

RenderMember ==
    /\ pc = "ready"
    /\ event.type = "MemberEvent"
    /\ Return("render", MemberEvent_render(event, displayname))

RenderMessage ==
    /\ pc = "ready"
    /\ event.type = "MessageEvent"
    /\ Return("render", MessageEvent_render(event, displayname))

ResolveBody ==
    /\ pc = "ready"
    /\ event.type = "MessageEvent"
    /\ event.content.msgtype \in FormattedKinds
    /\ Return("resolve_body", Ok(resolve_body(event.content)))

ResolveUrl ==
    /\ pc = "ready"
    /\ event.type = "MessageEvent"
    /\ event.content.msgtype \in UrlOrFileKinds
    /\ Return("resolve_url", resolve_url(event.content))

Next ==
    \/ RenderEncrypted
    \/ RenderMember
    \/ RenderMessage
    \/ ResolveBody
    \/ ResolveUrl

Spec == Init /\ [][Next]_vars

-----------------------------------------------------------------------------
(* Vocabulary of the properties.                                           *)

Done(o) == pc = "done" /\ op = o

Rendered(t) == Done("render") /\ event.type = t

RenderedKind(kinds) ==
    Rendered("MessageEvent") /\ event.content.msgtype \in kinds

BothAbsent(c) == ~c.url.some /\ ~c.file.some

OccursAt(sub, s, i) ==
    /\ i \in 1..(Len(s) - Len(sub) + 1)
    /\ SubSeq(s, i, i + Len(sub) - 1) = sub

Occurs(sub, s) == \E i \in 1..(Len(s) + 1) : OccursAt(sub, s, i)

CountTab(s) == Cardinality({i \in 1..Len(s) : s[i] = TAB})

HasTab(s) == \E i \in 1..Len(s) : s[i] = TAB

\* the verb table as the documentation states it
Verb ==
    [Join   |-> <<"j","o","i","n","e","d">>,
     Leave  |-> <<"l","e","f","t">>,
     Ban    |-> <<"b","a","n","n","e","d">>,
     Invite |-> <<"i","n","v","i","t","e","d">>,
     Knock  |-> <<"k","n","o","c","k","e","d"," ","o","n">>]

-----------------------------------------------------------------------------
\* C1: for Text, Emote and Notice contents resolve_body returns exactly the
\* formatted body whenever one is present, whatever the plain body is, and
\* exactly the plain body whenever the formatted body is absent.
C1_ResolveBody ==
    Done("resolve_body") =>
        LET c == event.content
        IN  /\ c.formatted_body.some => result = Ok(c.formatted_body.val)
            /\ ~c.formatted_body.some => result = Ok(c.body)

C1_Witness ==
    /\ Done("resolve_body")
    /\ event.content.formatted_body.some
    /\ event.content.formatted_body.val # event.content.body
    /\ result = Ok(event.content.formatted_body.val)

\* C2: for Audio, File, Image and Video contents resolve_url returns exactly
\* the direct locator whenever it is present, also next to an encrypted
\* holder, and exactly the holder's inner locator when only the holder is
\* present.
C2_ResolveUrl ==
    Done("resolve_url") =>
        LET c == event.content
        IN  /\ c.url.some => result = Ok(c.url.val)
            /\ (~c.url.some /\ c.file.some) => result = Ok(c.file.val.url)

C2_Witness ==
    /\ Done("resolve_url")
    /\ event.content.url.some
    /\ event.content.file.some
    /\ event.content.url.val # event.content.file.val.url
    /\ result = Ok(event.content.url.val)

\* C3: for Audio, File, Image and Video contents with neither the direct
\* locator nor the encrypted holder, resolve_url, and so render, fails: the
\* outcome is the panic, never a string and never a rendered line.
C3_BothAbsentFails ==
    (/\ pc = "done"
     /\ event.type = "MessageEvent"
     /\ event.content.msgtype \in UrlOrFileKinds
     /\ BothAbsent(event.content))
        => (result = Panic /\ result.status # "ok")

C3_Witness ==
    /\ RenderedKind(UrlOrFileKinds)
    /\ BothAbsent(event.content)
    /\ result = Panic

\* C4 as stated: render returns a line for every event and display name,
\* whatever optional fields are present or absent.
C4_RenderTotal == Done("render") => result.status = "ok"

\* C4 as amended: render returns a line for every event and display name
\* except an Audio, File, Image or Video message with neither locator, for
\* which, and only for which, it panics.
C4_RenderTotalUnderContract ==
    Done("render") =>
        (result.status = "ok" <=>
            ~(/\ event.type = "MessageEvent"
              /\ event.content.msgtype \in UrlOrFileKinds
              /\ BothAbsent(event.content)))

C4_Witness ==
    /\ RenderedKind(UrlOrFileKinds)
    /\ ~event.content.url.some
    /\ event.content.file.some
    /\ result.status = "ok"

\* C5: a MembershipChanged event renders to
\* "<displayname> (<state key>) has <verb> the room" with the verb of the
\* fixed table, and two different membership states never share a verb.
C5_MemberLine ==
    /\ Rendered("MemberEvent") =>
           result = Ok(displayname \o <<" ","(">> \o event.state_key
                          \o <<")"," ","h","a","s"," ">>
                          \o Verb[event.content.membership]
                          \o <<" ","t","h","e"," ","r","o","o","m">>)
    /\ \A m1, m2 \in MembershipState :
           m1 # m2 => operation(m1) # operation(m2)

C5_Witness ==
    /\ Rendered("MemberEvent")
    /\ event.content.membership = "Knock"
    /\ event.state_key # <<>>
    /\ event.state_key # displayname
    /\ result.status = "ok"
    /\ Occurs(Verb.Knock, result.value)

\* C6: a Text, Emote or Notice message renders to
\* "<displayname>\t<resolve_body>", and an Emote renders to the same line as
\* the Text message with the same bodies and display name.
C6_BodyLine ==
    RenderedKind(FormattedKinds) =>
        /\ result = Ok(displayname \o <<TAB>> \o resolve_body(event.content))
        /\ result = MessageEvent_render(
                        [event EXCEPT !.content.msgtype = "Text"], displayname)

C6_Witness ==
    /\ RenderedKind({"Emote"})
    /\ event.content.formatted_body.some
    /\ event.content.formatted_body.val # event.content.body
    /\ displayname # <<>>
    /\ result.status = "ok"

\* C7: an Audio, File, Image or Video message with a locator renders to
\* "<displayname>\t<body>: <resolve_url>", and a Location message to the same
\* shape with the geo URI verbatim.
C7_LocatorLine ==
    /\ (RenderedKind(UrlOrFileKinds) /\ ~BothAbsent(event.content)) =>
           (/\ resolve_url(event.content).status = "ok"
            /\ result = Ok(displayname \o <<TAB>> \o event.content.body
                              \o <<":"," ">> \o resolve_url(event.content).value))
    /\ RenderedKind({"Location"}) =>
           result = Ok(displayname \o <<TAB>> \o event.content.body
                          \o <<":"," ">> \o event.content.geo_uri)

C7_Witness ==
    /\ RenderedKind(UrlOrFileKinds)
    /\ ~event.content.url.some
    /\ event.content.file.some
    /\ event.content.file.val.url # <<>>
    /\ result.status = "ok"
    /\ Occurs(<<":"," ">> \o event.content.file.val.url, result.value)

\* C8 as stated: a ServerNotice renders to "SERVER\t<body>" for every
\* display name, and the display name's text occurs in the line only if it
\* occurs in the body.
C8_ServerNoticeHidesName ==
    RenderedKind({"ServerNotice"}) =>
        /\ result = Ok(SERVER \o <<TAB>> \o event.content.body)
        /\ \A d \in Names : MessageEvent_render(event, d) = result
        /\ Occurs(displayname, result.value)
               => Occurs(displayname, event.content.body)

\* C8 as amended: a ServerNotice renders to "SERVER\t<body>" for every
\* display name, and the display name's text occurs in the line only where
\* it occurs in the body or where it overlaps the fixed "SERVER\t" prefix.
C8_ServerNotice ==
    RenderedKind({"ServerNotice"}) =>
        /\ result = Ok(SERVER \o <<TAB>> \o event.content.body)
        /\ \A d \in Names : MessageEvent_render(event, d) = result
        /\ \A i \in 1..(Len(result.value) + 1) :
               OccursAt(displayname, result.value, i) =>
                   \/ i <= Len(SERVER) + 1
                   \/ OccursAt(displayname, event.content.body,
                               i - (Len(SERVER) + 1))

C8_Witness ==
    /\ RenderedKind({"ServerNotice"})
    /\ displayname # <<>>
    /\ ~Occurs(displayname, SERVER \o <<TAB>>)
    /\ ~Occurs(displayname, event.content.body)
    /\ result.status = "ok"
    /\ ~Occurs(displayname, result.value)

\* C9: an Undecryptable event renders to
\* "<displayname>\tUnable to decrypt message" whatever its payload.
C9_Undecryptable ==
    Rendered("EncryptedEvent") =>
        /\ result = Ok(displayname \o <<TAB>> \o UnableToDecrypt)
        /\ \A e \in EncryptedEvent : EncryptedEvent_render(e, displayname) = result

C9_Witness ==
    /\ Rendered("EncryptedEvent")
    /\ displayname # <<>>
    /\ event.content.ciphertext = <<"S">>
    /\ result.status = "ok"
    /\ Len(result.value) = Len(displayname) + 1 + Len(UnableToDecrypt)

\* C10 as stated: every rendered line is non-empty, the line of a
\* MembershipChanged event never contains a TAB, and the line of every other
\* event contains one.
C10_TabUnambiguous ==
    (Done("render") /\ result.status = "ok") =>
        /\ Len(result.value) > 0
        /\ event.type = "MemberEvent" => ~HasTab(result.value)
        /\ event.type # "MemberEvent" => HasTab(result.value)

\* C10 as amended: every rendered line is non-empty, the line of a
\* MembershipChanged event contains exactly the TABs of its display name and
\* state key (none when they have none), and the line of every other event
\* contains a TAB.
C10_TabFromInputsOnly ==
    (Done("render") /\ result.status = "ok") =>
        /\ Len(result.value) > 0
        /\ event.type = "MemberEvent" =>
               CountTab(result.value)
                   = CountTab(displayname) + CountTab(event.state_key)
        /\ event.type # "MemberEvent" => HasTab(result.value)

C10_Witness ==
    /\ Rendered("MemberEvent")
    /\ displayname # <<>>
    /\ event.state_key # <<>>
    /\ ~HasTab(displayname)
    /\ ~HasTab(event.state_key)
    /\ result.status = "ok"
    /\ ~HasTab(result.value)

====
